---- MODULE Spec2Model ----
(***************************************************************************)
(* Model of app2.py, a Streamlit script that is executed top to bottom     *)
(* once per run: upload -> safe_read -> column mapping -> date range and   *)
(* category filter -> KPIs and groupings -> table and CSV download.        *)
(*                                                                         *)
(* Values follow pandas.  A frame cell is a record [k, s, n, t]:           *)
(*   k = "str"     text s                                                  *)
(*   k = "num"     the number n; t = 1 in a float64 column, t = 0 in an    *)
(*                 int64 column                                            *)
(*   k = "nan"     NaN (missing)                                           *)
(*   k = "ts"      Timestamp on day n (days since 1970-01-01); t = 0 for   *)
(*                 midnight, t = 1 for a later instant of that day         *)
(*   k = "nat"     NaT                                                     *)
(*   k = "numtext" the decimal text of number n (t = 1: float form,        *)
(*                 "100.0"; t = 0: integer form)                           *)
(*   k = "tstext"  the ISO text of Timestamp (n, t)                        *)
(*   k = "period"  the text "YYYY-MM" of the month numbered n              *)
(* Amounts are exact integers: the vocabulary has no fractional amounts.   *)
(***************************************************************************)
EXTENDS Integers, Sequences, FiniteSets, TLC

\* Longest uploaded table, in rows.
MaxRows == 2

Str(x) == [k |-> "str", s |-> x, n |-> 0, t |-> 0]
Num(x) == [k |-> "num", s |-> "", n |-> x, t |-> 0]
Float(x) == [k |-> "num", s |-> "", n |-> x, t |-> 1]
NaN == [k |-> "nan", s |-> "", n |-> 0, t |-> 0]
Ts(day, tod) == [k |-> "ts", s |-> "", n |-> day, t |-> tod]
NaT == [k |-> "nat", s |-> "", n |-> 0, t |-> 0]
NumText(x, isFloat) == [k |-> "numtext", s |-> "", n |-> x, t |-> IF isFloat THEN 1 ELSE 0]
TsText(c) == [k |-> "tstext", s |-> "", n |-> c.n, t |-> c.t]
PeriodText(m) == [k |-> "period", s |-> "", n |-> m, t |-> 0]

Range(f) == {f[i] : i \in DOMAIN f}

\* ------------------------------------------------------------------------
\* The uploaded file.  kind says which encodings can parse its bytes:
\*   "utf8"    valid UTF-8 delimited text
\*   "latin1"  delimited text holding a byte that is not valid UTF-8
\*   "broken"  no delimited text at all (for instance zero bytes)
\* names is the header line, lines the data lines, each a tuple of the raw
\* texts between the delimiters ("" is an empty field).
\* ------------------------------------------------------------------------
Schemas == {<<"Date", "Amount", "Category">>, <<"_date", "Amount", "Category">>}

RowPool ==
    { <<"2024-01-05 00:00", "100", "Food">>,
      <<"2024-02-10 10:00", "1,000", "Rent">>,
      <<"2024-02-10 00:00", "abc", "">>,
      <<"soon", "", "Food">> }

SeqsUpTo(S, n) == UNION {[1..m -> S] : m \in 0..n}

Files ==
    [kind : {"utf8"}, names : Schemas, lines : SeqsUpTo(RowPool, MaxRows)]
    \cup [kind : {"latin1"}, names : {<<"Date", "Amount", "Category">>},
          lines : SeqsUpTo(RowPool, 1)]
    \cup [kind : {"broken"}, names : {<<>>}, lines : {<<>>}]

NoFile == [kind |-> "none", names |-> <<>>, lines |-> <<>>]

\* ------------------------------------------------------------------------
\* pd.read_csv
\* ------------------------------------------------------------------------
\* Texts the parser reads as numbers, and their values.
NumericTexts == {"100"}
NumberOf(x) == CASE x = "100" -> 100

\* A column is numeric when every field is a number or empty; an empty
\* field is NaN in every column, and makes a numeric column float64.
ColumnIsNumeric(lines, j) ==
    \A i \in DOMAIN lines : lines[i][j] \in NumericTexts \cup {""}

TypedCell(lines, i, j) ==
    IF lines[i][j] = "" THEN NaN
    ELSE IF ColumnIsNumeric(lines, j)
         THEN (IF \E h \in DOMAIN lines : lines[h][j] = ""
               THEN Float(NumberOf(lines[i][j])) ELSE Num(NumberOf(lines[i][j])))
    ELSE Str(lines[i][j])

\* The frame of a parsed file: cols is the ordered column index, rows the
\* records, each a function from column name to cell.
Frame(names, lines) ==
    [cols |-> names,
     rows |-> [i \in DOMAIN lines |->
                 [c \in Range(names) |->
                    TypedCell(lines, i, CHOOSE j \in DOMAIN names : names[j] = c)]]]

EmptyFrame == [cols |-> <<>>, rows |-> <<>>]

\* Whether the bytes of a file of this kind parse under an encoding.
Parses(kind, enc) ==
    CASE kind = "utf8" -> TRUE
      [] kind = "latin1" -> enc = "latin1"
      [] OTHER -> FALSE

\* One pd.read_csv(file, encoding=enc) on a file object whose read position
\* is pos (0 = start).  A read consumes the stream, so a parse that does not
\* start at 0 finds no header.  Returns the outcome and logs the attempt.
read_csv(file, pos, enc, log) ==
    [ok |-> pos = 0 /\ Parses(file.kind, enc),
     frame |-> IF pos = 0 /\ Parses(file.kind, enc)
               THEN Frame(file.names, file.lines) ELSE EmptyFrame,
     pos |-> 1,
     log |-> Append(log, [enc |-> enc, pos |-> pos])]

\* A retry that reads on from where the failed attempt stopped.
SeekStartOmitted(pos) == pos

\* file.seek(0)
SeekStart(pos) == 0

\* safe_read: default encoding, then utf-8-sig, then latin1; the exception
\* of the last attempt is not caught.
safe_read(file) ==
    LET a1 == read_csv(file, 0, "default", <<>>)
        a2 == read_csv(file, SeekStart(a1.pos), "utf-8-sig", a1.log)
        a3 == read_csv(file, SeekStart(a2.pos), "latin1", a2.log)
    IN  IF a1.ok THEN [raised |-> FALSE, frame |-> a1.frame, log |-> a1.log]
        ELSE IF a2.ok THEN [raised |-> FALSE, frame |-> a2.frame, log |-> a2.log]
        ELSE [raised |-> ~a3.ok, frame |-> a3.frame, log |-> a3.log]

\* DataFrame.empty: some axis has length 0.
IsEmpty(frame) == Len(frame.cols) = 0 \/ Len(frame.rows) = 0

\* ------------------------------------------------------------------------
\* Frames
\* ------------------------------------------------------------------------
Column(frame, c) == [i \in DOMAIN frame.rows |-> frame.rows[i][c]]

\* df[c] = values: a new column goes last, an existing one is overwritten
\* in place.
SetColumn(frame, c, values) ==
    [cols |-> IF c \in Range(frame.cols) THEN frame.cols ELSE Append(frame.cols, c),
     rows |-> [i \in DOMAIN frame.rows |->
                 [d \in DOMAIN frame.rows[i] \cup {c} |->
                    IF d = c THEN values[i] ELSE frame.rows[i][d]]]]

\* Boolean-mask selection frame[mask]: the rows whose index is in keep, in
\* their order.
RECURSIVE SelectRows(_, _, _)
SelectRows(rows, keep, i) ==
    IF i > Len(rows) THEN <<>>
    ELSE IF i \in keep THEN <<rows[i]>> \o SelectRows(rows, keep, i + 1)
    ELSE SelectRows(rows, keep, i + 1)

\* The dtype of a numeric result: float64 when a value is NaN or a float,
\* int64 otherwise; every number of the column takes its form.
WithNumericDtype(col) ==
    LET isFloat == \E i \in DOMAIN col : col[i].k = "nan" \/ (col[i].k = "num" /\ col[i].t = 1)
    IN  [i \in DOMAIN col |->
           IF col[i].k = "num"
           THEN (IF isFloat THEN Float(col[i].n) ELSE Num(col[i].n))
           ELSE col[i]]

\* ------------------------------------------------------------------------
\* Convert fields (lines 107-114)
\* ------------------------------------------------------------------------
\* Texts the date parser accepts, as (day since 1970-01-01, time of day).
ParseDate(x) ==
    CASE x = "2024-01-05 00:00" -> Ts(19727, 0)
      [] x = "2024-02-10 00:00" -> Ts(19763, 0)
      [] x = "2024-02-10 10:00" -> Ts(19763, 1)
      [] OTHER -> NaT

\* pd.to_datetime(col, errors="coerce"): a number is nanoseconds after
\* 1970-01-01 00:00, text is parsed, anything else is NaT.
to_datetime_cell(c) ==
    CASE c.k = "str" -> ParseDate(c.s)
      [] c.k = "num" -> Ts(0, IF c.n = 0 THEN 0 ELSE 1)
      [] c.k = "ts" -> c
      [] OTHER -> NaT

to_datetime(col) == [i \in DOMAIN col |-> to_datetime_cell(col[i])]

\* col.astype(str)
astype_str_cell(c) ==
    CASE c.k = "num" -> NumText(c.n, c.t = 1)
      [] c.k = "nan" -> Str("nan")
      [] c.k = "ts" -> TsText(c)
      [] c.k = "nat" -> Str("NaT")
      [] OTHER -> c

astype_str(col) == [i \in DOMAIN col |-> astype_str_cell(col[i])]

\* .str.replace(",", "")
RemoveCommas(x) == CASE x = "1,000" -> "1000" [] OTHER -> x

str_replace_cell(c) == IF c.k = "str" THEN Str(RemoveCommas(c.s)) ELSE c

\* pd.to_numeric(col, errors="coerce")
ParseNumber(x) ==
    CASE x = "100" -> Num(100)
      [] x = "1000" -> Num(1000)
      [] OTHER -> NaN

to_numeric_cell(c) ==
    CASE c.k = "str" -> ParseNumber(c.s)
      [] c.k = "numtext" -> IF c.t = 1 THEN Float(c.n) ELSE Num(c.n)
      [] c.k = "num" -> c
      [] OTHER -> NaN

AmountOf(col) ==
    WithNumericDtype(
        [i \in DOMAIN col |-> to_numeric_cell(str_replace_cell(astype_str(col)[i]))])

\* col.fillna("Uncategorized")
fillna_cell(c) == IF c.k \in {"nan", "nat"} THEN Str("Uncategorized") ELSE c

\* df[category_col].fillna("Uncategorized").astype(str), or the constant
CategoryOf(frame, category_col) ==
    IF category_col # "(none)"
    THEN LET col == Column(frame, category_col)
         IN  [i \in DOMAIN col |-> astype_str_cell(fillna_cell(col[i]))]
    ELSE [i \in DOMAIN frame.rows |-> Str("Uncategorized")]

\* A conversion that drops the rows whose date did not parse.
ConvertFieldsDroppingInvalid(frame, date_col, amount_col, category_col) ==
    LET f1 == SetColumn(frame, "_date", to_datetime(Column(frame, date_col)))
        f2 == SetColumn(f1, "_amount", AmountOf(Column(f1, amount_col)))
        f3 == SetColumn(f2, "_category", CategoryOf(f2, category_col))
    IN  [cols |-> f3.cols,
         rows |-> SelectRows(f3.rows,
                    {i \in DOMAIN f3.rows : f3.rows[i]["_date"].k = "ts"}, 1)]

\* The three assignments, each reading the frame the previous one left.
ConvertFields(frame, date_col, amount_col, category_col) ==
    LET f1 == SetColumn(frame, "_date", to_datetime(Column(frame, date_col)))
        f2 == SetColumn(f1, "_amount", AmountOf(Column(f1, amount_col)))
    IN  SetColumn(f2, "_category", CategoryOf(f2, category_col))

\* ------------------------------------------------------------------------
\* Filters (lines 116-136)
\* ------------------------------------------------------------------------
IsValidDate(c) == c.k = "ts"

ValidDates(frame) == {c \in Range(Column(frame, "_date")) : IsValidDate(c)}

\* Timestamp order: by day, then by time of day.
TsLeq(a, b) == a.n < b.n \/ (a.n = b.n /\ a.t <= b.t)

\* df["_date"].min() and .max(); NaT when no date is valid.
MinDate(frame) ==
    IF ValidDates(frame) = {} THEN NaT
    ELSE CHOOSE m \in ValidDates(frame) : \A c \in ValidDates(frame) : TsLeq(m, c)

MaxDate(frame) ==
    IF ValidDates(frame) = {} THEN NaT
    ELSE CHOOSE m \in ValidDates(frame) : \A c \in ValidDates(frame) : TsLeq(c, m)

\* date.today() and its January 1st, as days since 1970-01-01.
Clock == [today |-> 20755, new_year |-> 20454]

\* The default value of the range picker: calendar dates (days).
DefaultRange(frame) ==
    IF MinDate(frame).k = "nat" THEN <<Clock.new_year, Clock.today>>
    ELSE <<MinDate(frame).n, MaxDate(frame).n>>

\* Days the user may pick besides the defaults, when the picker offers them:
\* it spans ten years around its default value.
OtherDays == {19727, 19763}

PickerSpan == 10 * 365 + 2

PickableDays(default) ==
    {default[1], default[2]}
    \cup {d \in OtherDays : default[1] - PickerSpan <= d /\ d <= default[2] + PickerSpan}

\* What st.date_input can return: no date, one date, or start and end.
RangeChoices(default) ==
    {<<>>}
    \cup {<<d>> : d \in PickableDays(default)}
    \cup {r \in PickableDays(default) \X PickableDays(default) : r[1] <= r[2]}

\* df["_category"].unique()
UniqueCategories(frame) == Range(Column(frame, "_category"))

\* Comparing a Timestamp column with datetime.date bounds: a pandas that
\* coerces the date does so to midnight of that day.
DateToTimestamp(d) == Ts(d, 0)

\* col.between(start, end): both ends inclusive; NaT compares false.
Between(c, start, end) ==
    /\ IsValidDate(c)
    /\ TsLeq(DateToTimestamp(start), c)
    /\ TsLeq(c, DateToTimestamp(end))

\* Lines 134-136.
FilterData(frame, start, end, cats) ==
    LET f1 == [cols |-> frame.cols,
               rows |-> SelectRows(frame.rows,
                          {i \in DOMAIN frame.rows :
                             Between(frame.rows[i]["_date"], start, end)}, 1)]
    IN  [cols |-> f1.cols,
         rows |-> SelectRows(f1.rows,
                    {i \in DOMAIN f1.rows : f1.rows[i]["_category"] \in cats}, 1)]

\* ------------------------------------------------------------------------
\* KPIs and groupings (lines 143-194)
\* ------------------------------------------------------------------------
IsValidAmount(c) == c.k = "num"

\* Series.sum(): NaN is skipped, the empty sum is 0.
RECURSIVE SumFrom(_, _)
SumFrom(col, i) ==
    IF i > Len(col) THEN 0
    ELSE (IF IsValidAmount(col[i]) THEN col[i].n ELSE 0) + SumFrom(col, i + 1)

Sum(col) == SumFrom(col, 1)

\* Number of values that are not NaN.
RECURSIVE CountFrom(_, _)
CountFrom(col, i) ==
    IF i > Len(col) THEN 0
    ELSE (IF IsValidAmount(col[i]) THEN 1 ELSE 0) + CountFrom(col, i + 1)

\* A mean over the number of rows, NaN amounts included.
MeanOverAllRows(col) ==
    IF Len(col) = 0 THEN [nan |-> TRUE, num |-> 0, den |-> 1]
    ELSE [nan |-> FALSE, num |-> Sum(col), den |-> Len(col)]

\* Series.mean(): the sum over the number of values that are not NaN, kept
\* as the fraction num/den; NaN when there is none.
Mean(col) ==
    IF CountFrom(col, 1) = 0 THEN [nan |-> TRUE, num |-> 0, den |-> 1]
    ELSE [nan |-> FALSE, num |-> Sum(col), den |-> CountFrom(col, 1)]

\* Series.max(): NaN is skipped; NaN when there is none.
RECURSIVE MaxFrom(_, _, _)
MaxFrom(col, i, best) ==
    IF i > Len(col) THEN best
    ELSE IF IsValidAmount(col[i]) /\ (best.k = "nan" \/ col[i].n > best.n)
         THEN MaxFrom(col, i + 1, col[i])
         ELSE MaxFrom(col, i + 1, best)

Max(col) == MaxFrom(col, 1, NaN)

\* Rows of a group.
GroupRows(frame, key, g) ==
    [cols |-> frame.cols,
     rows |-> SelectRows(frame.rows,
                {i \in DOMAIN frame.rows : frame.rows[i][key] = g}, 1)]

\* Missing key values form no group (dropna).
GroupKeys(frame, key) ==
    {g \in Range(Column(frame, key)) : g.k \notin {"nan", "nat"}}

\* A grouping that takes the largest amount of each group.
GroupMax(frame, key) ==
    [g \in GroupKeys(frame, key) |->
        Max(Column(GroupRows(frame, key, g), "_amount")).n]

\* frame.groupby(key)["_amount"].sum(): one entry per key value.
GroupSum(frame, key) ==
    [g \in GroupKeys(frame, key) |->
        Sum(Column(GroupRows(frame, key, g), "_amount"))]

\* Calendar month of a day, as months since 1970-01, for the days a parsed
\* date can fall on.
MonthOfDay(d) ==
    CASE d = 0 -> 0
      [] d = 19727 -> 648
      [] d = 19763 -> 649

\* col.dt.to_period("M").astype(str)
YearMonth(col) ==
    [i \in DOMAIN col |->
        IF IsValidDate(col[i]) THEN PeriodText(MonthOfDay(col[i].n)) ELSE Str("NaT")]

\* ------------------------------------------------------------------------
\* Download (line 204)
\* ------------------------------------------------------------------------
\* How to_csv writes a cell: a missing value is the empty field, a number
\* of a float64 column is in float form.
CsvField(c) ==
    CASE c.k \in {"nan", "nat"} -> Str("")
      [] c.k = "num" -> NumText(c.n, c.t = 1)
      [] c.k = "ts" -> TsText(c)
      [] OTHER -> c

\* to_csv with the row index written as a first, unnamed column.
to_csv_with_index(frame) ==
    [header |-> <<"">> \o frame.cols,
     lines |-> [i \in DOMAIN frame.rows |->
                  <<NumText(i - 1, FALSE)>> \o
                  [j \in DOMAIN frame.cols |-> CsvField(frame.rows[i][frame.cols[j]])]]]

\* frame.to_csv(index=False): the header, then one line per row with a
\* field per column, in column order.
to_csv(frame) ==
    [header |-> frame.cols,
     lines |-> [i \in DOMAIN frame.rows |->
                  [j \in DOMAIN frame.cols |-> CsvField(frame.rows[i][frame.cols[j]])]]]

\* ------------------------------------------------------------------------
\* The script run
\* ------------------------------------------------------------------------
VARIABLES
    uploaded,      \* the file of st.file_uploader, NoFile when there is none
    pc,            \* the section of the script that runs next
    read_log,      \* the read_csv attempts of safe_read: encoding, position
    df,            \* the frame
    date_col, amount_col, category_col,   \* the sidebar selections
    default_range, \* [min_d, max_d] handed to the range picker
    date_range,    \* what the range picker returned
    categories,    \* what the category multiselect returned
    filtered,      \* the filtered frame
    kpi,           \* total, avg, max_amt, tx_count
    cat_sum, trend,\* the two groupings
    csv_data,      \* the download
    messages,      \* the messages emitted, in order
    exception,     \* the exception that ended the run, "none" otherwise
    sections       \* the sections that ran, in order

vars == <<uploaded, pc, read_log, df, date_col, amount_col, category_col,
          default_range, date_range, categories, filtered, kpi, cat_sum, trend,
          csv_data, messages, exception, sections>>

\* A message of st.info, st.error, st.sidebar.error, st.warning or
\* st.success.  Its text is the concatenation of the parts; a part
\* "U+hhhh" stands for the character with that code point.
Message(kind, parts) == [kind |-> kind, text |-> parts]

PartyPopper == "U+1F389"

NoKpi == [total |-> 0, avg |-> [nan |-> TRUE, num |-> 0, den |-> 1],
          max_amt |-> NaN, tx_count |-> 0]
NoCsv == [header |-> <<>>, lines |-> <<>>]

Init ==
    /\ uploaded \in Files \cup {NoFile}
    /\ pc = "upload"
    /\ read_log = <<>>
    /\ df = EmptyFrame
    /\ date_col = ""
    /\ amount_col = ""
    /\ category_col = ""
    /\ default_range = <<>>
    /\ date_range = <<>>
    /\ categories = {}
    /\ filtered = EmptyFrame
    /\ kpi = NoKpi
    /\ cat_sum = <<>>
    /\ trend = <<>>
    /\ csv_data = NoCsv
    /\ messages = <<>>
    /\ exception = "none"
    /\ sections = <<>>

\* Lines 72, 85-87: no upload is reported and stops the run.
Upload ==
    /\ pc = "upload"
    /\ sections' = Append(sections, "upload")
    /\ IF uploaded = NoFile
       THEN /\ messages' = Append(messages, Message("info", <<"Please upload your CSV file to continue.">>))
            /\ pc' = "stopped"
       ELSE /\ messages' = messages
            /\ pc' = "read"
    /\ UNCHANGED <<uploaded, read_log, df, date_col, amount_col, category_col,
                   default_range, date_range, categories, filtered, kpi, cat_sum,
                   trend, csv_data, exception>>

\* Line 89: df = safe_read(uploaded).copy(); an exception of the last
\* attempt ends the run.
Read ==
    /\ pc = "read"
    /\ sections' = Append(sections, "read")
    /\ LET r == safe_read(uploaded)
       IN  /\ read_log' = r.log
           /\ IF r.raised
              THEN /\ exception' = "read_csv"
                   /\ pc' = "raised"
                   /\ df' = df
              ELSE /\ exception' = exception
                   /\ pc' = "check"
                   /\ df' = r.frame
    /\ UNCHANGED <<uploaded, date_col, amount_col, category_col, default_range,
                   date_range, categories, filtered, kpi, cat_sum, trend, csv_data,
                   messages>>

\* Lines 91-97: an empty frame is reported and stops the run.
CheckEmpty ==
    /\ pc = "check"
    /\ sections' = Append(sections, "check")
    /\ IF IsEmpty(df)
       THEN /\ messages' = Append(messages, Message("error", <<"Could not read the file. Upload a valid CSV.">>))
            /\ pc' = "stopped"
       ELSE /\ messages' = messages
            /\ pc' = "convert"
    /\ UNCHANGED <<uploaded, read_log, df, date_col, amount_col, category_col,
                   default_range, date_range, categories, filtered, kpi, cat_sum,
                   trend, csv_data, exception>>

\* Lines 101-114: the three selections, then the derived columns.
Convert ==
    /\ pc = "convert"
    /\ sections' = Append(sections, "convert")
    /\ \E dc \in Range(df.cols), ac \in Range(df.cols),
          cc \in Range(df.cols) \cup {"(none)"} :
          /\ date_col' = dc
          /\ amount_col' = ac
          /\ category_col' = cc
          /\ df' = ConvertFields(df, dc, ac, cc)
    /\ pc' = "range"
    /\ UNCHANGED <<uploaded, read_log, default_range, date_range, categories,
                   filtered, kpi, cat_sum, trend, csv_data, messages, exception>>

\* Lines 117-130: the range picker; anything but two dates is reported
\* and stops the run.
SelectRange ==
    /\ pc = "range"
    /\ sections' = Append(sections, "range")
    /\ default_range' = DefaultRange(df)
    /\ \E r \in RangeChoices(DefaultRange(df)) : date_range' = r
    /\ IF Len(date_range') # 2
       THEN /\ messages' = Append(messages, Message("sidebar.error", <<"Select a valid date range.">>))
            /\ pc' = "stopped"
       ELSE /\ messages' = messages
            /\ pc' = "filter"
    /\ UNCHANGED <<uploaded, read_log, df, date_col, amount_col, category_col,
                   categories, filtered, kpi, cat_sum, trend, csv_data, exception>>

\* Lines 131-140 where pandas coerces the datetime.date bounds: the
\* category multiselect, the two masks; an empty result is reported and
\* stops the run.
Filter ==
    /\ pc = "filter"
    /\ sections' = Append(sections, "filter")
    /\ \E cats \in SUBSET UniqueCategories(df) : categories' = cats
    /\ filtered' = FilterData(df, date_range[1], date_range[2], categories')
    /\ IF IsEmpty(filtered')
       THEN /\ messages' = Append(messages, Message("warning", <<"No records found for selected filters.">>))
            /\ pc' = "stopped"
       ELSE /\ messages' = messages
            /\ pc' = "kpi"
    /\ UNCHANGED <<uploaded, read_log, df, date_col, amount_col, category_col,
                   default_range, date_range, kpi, cat_sum, trend, csv_data,
                   exception>>

\* Lines 131-135 where pandas does not compare a datetime64 column with
\* datetime.date (pandas 1.0 and later): between raises TypeError.
FilterRaises ==
    /\ pc = "filter"
    /\ sections' = Append(sections, "filter")
    /\ \E cats \in SUBSET UniqueCategories(df) : categories' = cats
    /\ filtered' = [cols |-> df.cols, rows |-> df.rows]
    /\ exception' = "TypeError"
    /\ pc' = "raised"
    /\ UNCHANGED <<uploaded, read_log, df, date_col, amount_col, category_col,
                   default_range, date_range, kpi, cat_sum, trend, csv_data,
                   messages>>

\* Lines 143-196: the four KPIs, the category grouping, the year_month
\* column and the monthly grouping.
Aggregate ==
    /\ pc = "kpi"
    /\ sections' = Append(sections, "kpi")
    /\ kpi' = [total |-> Sum(Column(filtered, "_amount")),
               avg |-> Mean(Column(filtered, "_amount")),
               max_amt |-> Max(Column(filtered, "_amount")),
               tx_count |-> Len(filtered.rows)]
    /\ cat_sum' = GroupSum(filtered, "_category")
    /\ filtered' = SetColumn(filtered, "year_month", YearMonth(Column(filtered, "_date")))
    /\ trend' = GroupSum(filtered', "year_month")
    /\ pc' = "table"
    /\ UNCHANGED <<uploaded, read_log, df, date_col, amount_col, category_col,
                   default_range, date_range, categories, csv_data, messages,
                   exception>>

\* Lines 199-207: the table, the download and the closing message.
Export ==
    /\ pc = "table"
    /\ sections' = Append(sections, "table")
    /\ csv_data' = to_csv(filtered)
    /\ messages' = Append(messages,
            Message("success", <<"Dashboard Loaded Successfully ", PartyPopper,
                                 " Enjoy your analytics!">>))
    /\ pc' = "done"
    /\ UNCHANGED <<uploaded, read_log, df, date_col, amount_col, category_col,
                   default_range, date_range, categories, filtered, kpi, cat_sum,
                   trend, exception>>

Next ==
    \/ Upload
    \/ Read
    \/ CheckEmpty
    \/ Convert
    \/ SelectRange
    \/ Filter
    \/ FilterRaises
    \/ Aggregate
    \/ Export

Spec == Init /\ [][Next]_vars

\* ------------------------------------------------------------------------
\* Properties
\* ------------------------------------------------------------------------
\* The Table of the run: the frame as safe_read returned it.
Table == safe_read(uploaded).frame

Ran(section) == section \in Range(sections)

Derived == {"_date", "_amount", "_category"}

\* The run ended before the dashboard was complete.
Halted == pc \in {"stopped", "raised"}

\* C1: once a terminal condition occurs (no file, decode failure, empty
\* table, a date range that is not two dates, empty filter result), no
\* later stage has run, exactly one user-facing message has been emitted
\* and no exception has escaped.
C1_TerminalConditionHaltsWithOneMessage ==
    Halted =>
        /\ ~Ran("kpi") /\ ~Ran("table")
        /\ Len(messages) = 1
        /\ exception = "none"

\* Rows of a frame cut down to the columns of another.
Project(rows, cols) == [i \in DOMAIN rows |-> [c \in cols |-> rows[i][c]]]

\* The calendar-date reading of the filter predicate.
KeptByDateAndCategory(row, start, end, cats) ==
    /\ IsValidDate(row["_date"])
    /\ start <= row["_date"].n
    /\ row["_date"].n <= end
    /\ row["_category"] \in cats

\* C2: the Filterer output is the order-preserving sub-sequence of its
\* input holding exactly the rows whose date is valid, lies in
\* [start, end] with both end days included, and whose category is
\* selected.
C2_FilterKeepsExactlyRowsInRange ==
    (Ran("filter") /\ exception = "none") =>
        Project(filtered.rows, Range(df.cols)) =
            SelectRows(df.rows,
                {i \in DOMAIN df.rows :
                    KeptByDateAndCategory(df.rows[i], date_range[1], date_range[2],
                                          categories)}, 1)

\* Cells of the Table that the two coercions can read.
DateTexts == {"2024-01-05 00:00", "2024-02-10 00:00", "2024-02-10 10:00"}
AmountTexts == {"100", "1,000"}
DateCoercible(c) == c.k = "num" \/ (c.k = "str" /\ c.s \in DateTexts)
AmountCoercible(c) == c.k = "num" \/ (c.k = "str" /\ c.s \in AmountTexts)

\* C3: FieldMapper yields one normalized row per Table row, in Table
\* order; a date or amount cell that cannot be coerced yields the invalid
\* marker of that field, and no error is raised.
C3_OneNormalizedRowPerTableRow ==
    Ran("convert") =>
        /\ pc = "range" => exception = "none"
        /\ Len(df.rows) = Len(Table.rows)
        /\ \A i \in DOMAIN df.rows :
              /\ \A c \in Range(Table.cols) \ Derived :
                    df.rows[i][c] = Table.rows[i][c]
              /\ df.rows[i]["_date"].k \in {"ts", "nat"}
              /\ df.rows[i]["_amount"].k \in {"num", "nan"}
              /\ ~DateCoercible(Table.rows[i][date_col]) => df.rows[i]["_date"] = NaT
              /\ ~AmountCoercible(Table.rows[i][amount_col]) => df.rows[i]["_amount"] = NaN

C3_Witness ==
    /\ pc = "range"
    /\ Len(df.rows) = MaxRows
    /\ \E i \in DOMAIN df.rows : df.rows[i]["_date"] = NaT
    /\ \E i \in DOMAIN df.rows : df.rows[i]["_amount"] = NaN
    /\ \E i \in DOMAIN df.rows : df.rows[i]["_date"].k = "ts"

RECURSIVE SumOfValues(_, _)
SumOfValues(f, keys) ==
    IF keys = {} THEN 0
    ELSE LET g == CHOOSE x \in keys : TRUE
         IN  f[g] + SumOfValues(f, keys \ {g})

\* C4: the KPI total equals the sum of the values of the per-category
\* grouping.
C4_TotalEqualsSumOfCategoryGroups ==
    Ran("kpi") => kpi.total = SumOfValues(cat_sum, DOMAIN cat_sum)

C4_Witness ==
    /\ pc = "done"
    /\ Cardinality(DOMAIN cat_sum) >= 2
    /\ kpi.total > 0
    /\ \E i \in DOMAIN filtered.rows : ~IsValidAmount(filtered.rows[i]["_amount"])

ValidAmountRows(frame) ==
    {i \in DOMAIN frame.rows : IsValidAmount(frame.rows[i]["_amount"])}

RECURSIVE SumOfAmounts(_, _)
SumOfAmounts(frame, idx) ==
    IF idx = {} THEN 0
    ELSE LET i == CHOOSE x \in idx : TRUE
         IN  frame.rows[i]["_amount"].n + SumOfAmounts(frame, idx \ {i})

\* C5: count is the number of filtered rows, invalid amounts included;
\* total sums the valid amounts only; maximum is the largest valid amount;
\* average is total over the number of valid-amount rows.
C5_KpisOverValidAmounts ==
    Ran("kpi") =>
        LET valid == ValidAmountRows(filtered)
        IN  /\ kpi.tx_count = Len(filtered.rows)
            /\ kpi.total = SumOfAmounts(filtered, valid)
            /\ valid # {} =>
                  /\ \E i \in valid : kpi.max_amt = filtered.rows[i]["_amount"]
                  /\ \A i \in valid : filtered.rows[i]["_amount"].n <= kpi.max_amt.n
                  /\ ~kpi.avg.nan
                  /\ kpi.avg.num = kpi.total
                  /\ kpi.avg.den = Cardinality(valid)

C5_Witness ==
    /\ pc = "done"
    /\ ValidAmountRows(filtered) # {}
    /\ Cardinality(ValidAmountRows(filtered)) < Len(filtered.rows)

HasNaN(col) == \E i \in DOMAIN col : col[i].k = "nan"

\* The text of a Table cell: a number of a column with a missing value is
\* a float.
TextOfTableCell(c, col) ==
    IF c.k = "num" THEN NumText(c.n, HasNaN(col)) ELSE c

\* C6: after FieldMapper every category is non-empty text: "Uncategorized"
\* under the "(none)" selection and for an empty cell of the selected
\* column, the text of the Table's cell otherwise.
C6_CategoryFromSelectedColumn ==
    Ran("convert") =>
        \A i \in DOMAIN df.rows :
            /\ df.rows[i]["_category"] # Str("")
            /\ df.rows[i]["_category"].k \in {"str", "numtext", "tstext"}
            /\ df.rows[i]["_category"] =
                  IF category_col = "(none)" THEN Str("Uncategorized")
                  ELSE IF Table.rows[i][category_col] = NaN THEN Str("Uncategorized")
                  ELSE TextOfTableCell(Table.rows[i][category_col],
                                       Column(Table, category_col))

Encodings == <<"default", "utf-8-sig", "latin1">>

\* C7: safe_read tries default, utf-8-sig, latin1 in this order, every
\* attempt reading from the start of the input; the first attempt that
\* parses ends it and gives the frame; it raises only when all three fail.
C7_EncodingsInOrderFirstSuccessWins ==
    Ran("read") =>
        /\ Len(read_log) \in 1..Len(Encodings)
        /\ \A i \in DOMAIN read_log :
              /\ read_log[i].enc = Encodings[i]
              /\ read_log[i].pos = 0
              /\ i < Len(read_log) => ~Parses(uploaded.kind, Encodings[i])
        /\ exception = "read_csv" <=>
              \A i \in DOMAIN Encodings : ~Parses(uploaded.kind, Encodings[i])
        /\ exception # "read_csv" => Parses(uploaded.kind, Encodings[Len(read_log)])
        /\ pc = "check" => df = Frame(uploaded.names, uploaded.lines)

C7_Witness ==
    /\ pc = "check"
    /\ Len(read_log) = Len(Encodings)
    /\ Len(df.rows) > 0

\* C8: the Table is immutable: its column names and every one of its
\* cells stay as decoded for the rest of the run.
C8_TableUnchangedAfterDecode ==
    (Ran("read") /\ exception # "read_csv") =>
        /\ SubSeq(df.cols, 1, Len(Table.cols)) = Table.cols
        /\ Len(df.rows) = Len(Table.rows)
        /\ \A i \in DOMAIN df.rows : \A c \in Range(Table.cols) :
              df.rows[i][c] = Table.rows[i][c]

\* The lines of the download are the filtered rows, in their order.
ExportsFilteredRows ==
    /\ Len(csv_data.lines) = Len(filtered.rows)
    /\ \A i \in DOMAIN csv_data.lines :
          /\ Len(csv_data.lines[i]) = Len(csv_data.header)
          /\ \A j \in DOMAIN csv_data.header :
                /\ csv_data.lines[i][j] = CsvField(filtered.rows[i][csv_data.header[j]])
                /\ (csv_data.header[j] = "_amount" /\ csv_data.lines[i][j].k = "numtext") =>
                      /\ csv_data.lines[i][j].n = filtered.rows[i]["_amount"].n
                      /\ csv_data.lines[i][j].t = 1 <=> HasNaN(Column(df, "_amount"))

NoDuplicates(seq) == \A i, j \in DOMAIN seq : seq[i] = seq[j] => i = j

\* C9 as stated: the download holds the filtered rows in order and its
\* columns are the Table's columns and the three derived columns, no other.
C9_ExportHasOnlyDerivedColumns ==
    pc = "done" =>
        /\ NoDuplicates(csv_data.header)
        /\ Range(csv_data.header) = Range(Table.cols) \cup Derived
        /\ ExportsFilteredRows

\* C9 amended: the download holds the filtered rows in order and its
\* columns are the Table's columns, the three derived columns and the
\* year_month column of the monthly grouping, no other.
C9_ExportHasDerivedColumnsAndYearMonth ==
    pc = "done" =>
        /\ NoDuplicates(csv_data.header)
        /\ SubSeq(csv_data.header, 1, Len(Table.cols)) = Table.cols
        /\ Range(csv_data.header) = Range(Table.cols) \cup Derived \cup {"year_month"}
        /\ ExportsFilteredRows
        /\ Project(filtered.rows, Range(df.cols)) =
              FilterData(df, date_range[1], date_range[2], categories).rows

C9_Witness ==
    /\ pc = "done"
    /\ Len(csv_data.lines) >= 1
    /\ Len(csv_data.lines) < Len(Table.rows)
    /\ \E i \in DOMAIN csv_data.lines : \E j \in DOMAIN csv_data.header :
          csv_data.header[j] = "year_month" /\ csv_data.lines[i][j].k = "period"

\* C10: the Aggregator and the Exporter only see a non-empty filtered
\* frame without invalid dates; when no row of the Table has a valid date,
\* every run that picks a date range and categories ends at the
\* empty-filter warning.
C10_AllInvalidDatesEndAtEmptyFilterWarning ==
    /\ (Ran("kpi") \/ Ran("table")) =>
          /\ Len(filtered.rows) > 0
          /\ \A i \in DOMAIN filtered.rows : IsValidDate(filtered.rows[i]["_date"])
    /\ (Ran("filter") /\ ValidDates(df) = {}) =>
          /\ pc = "stopped"
          /\ messages = <<Message("warning", <<"No records found for selected filters.">>)>>
          /\ exception = "none"
====
